---- MODULE Spec2Model ----
(***************************************************************************)
(* Model of homeassistant/exceptions.py: the error taxonomy, the           *)
(* ConditionError tree and its generator-based rendering.                  *)
(*                                                                         *)
(* A Python str is a sequence of one-character strings, so formatting,     *)
(* indentation and joining are computed character by character.  A Python  *)
(* object is a record with a cls field; None is the record None.           *)
(***************************************************************************)
EXTENDS Integers, Sequences, FiniteSets, TLC

VARIABLES
    err,        \* the error value most recently constructed, or None
    supplied,   \* the arguments of the constructor call that built err
    errors,     \* the engine's list of collected ConditionErrors (condition.py's "errors")
    gen,        \* gen[g]: the generator object held by consumer g
    strResult   \* the outcome of the last str(err), or NotCalled

vars == <<err, supplied, errors, gen, strResult>>

----------------------------------------------------------------------------
(* Bounds of the model.                                                    *)

MaxNodes == 3      \* nodes in the values under construction (err and errors)
MaxErrors == 2     \* length of the engine's errors list

Gens == {1, 2}     \* two consumers, each holding at most one generator

----------------------------------------------------------------------------
(* Python values.                                                          *)

None == [cls |-> "NoneType"]

PyStr(s) == [cls |-> "str", v |-> s]

Digits == <<"0", "1", "2", "3", "4", "5", "6", "7", "8", "9">>

\* format(n) for an int n, as an f-string replacement field renders it
RECURSIVE IntStr(_)
IntStr(n) ==
    IF n < 0 THEN <<"-">> \o IntStr(0 - n)
    ELSE IF n < 10 THEN <<Digits[n + 1]>>
    ELSE IntStr(n \div 10) \o <<Digits[(n % 10) + 1]>>

\* sep.join(parts)
RECURSIVE Join(_, _)
Join(sep, parts) ==
    IF parts = <<>> THEN <<>>
    ELSE IF Len(parts) = 1 THEN parts[1]
    ELSE parts[1] \o sep \o Join(sep, Tail(parts))

\* unit * n, string repetition
RECURSIVE Repeat(_, _)
Repeat(unit, n) == IF n <= 0 THEN <<>> ELSE unit \o Repeat(unit, n - 1)

\* Sample strings: condition types, messages, identifiers.
S_and == <<"a", "n", "d">>
S_or == <<"o", "r">>
S_state == <<"s", "t", "a", "t", "e">>
S_off == <<"o", "f", "f">>
S_light == <<"l", "i", "g", "h", "t">>
S_on == <<"o", "n">>
S_abc == <<"a", "b", "c">>
S_name == <<"n", "a", "m", "e">>
S_u1 == <<"u", "1">>
S_u2 == <<"u", "2">>
S_e1 == <<"e", "1">>
S_c1 == <<"c", "1">>
S_p1 == <<"p", "1">>
S_x1 == <<"x", "1">>
S_ce == <<"c", "e">>

\* The literal text of the module's messages.
T_UnableToFind ==
    <<"U", "n", "a", "b", "l", "e", " ", "t", "o", " ", "f", "i", "n", "d",
      " ", "s", "e", "r", "v", "i", "c", "e", " ">>
T_Service ==
    <<"S", "e", "r", "v", "i", "c", "e", " ">>
T_NotFound ==
    <<" ", "n", "o", "t", " ", "f", "o", "u", "n", "d">>
T_Value ==
    <<"V", "a", "l", "u", "e", " ">>
T_ForProperty ==
    <<" ", "f", "o", "r", " ", "p", "r", "o", "p", "e", "r", "t", "y", " ">>
T_MaxLength ==
    <<" ", "h", "a", "s", " ", "a", " ", "m", "a", "x", " ", "l", "e", "n",
      "g", "t", "h", " ", "o", "f", " ">>
T_Characters ==
    <<" ", "c", "h", "a", "r", "a", "c", "t", "e", "r", "s">>
T_CallMustInclude ==
    <<"C", "a", "l", "l", " ", "m", "u", "s", "t", " ", "i", "n", "c", "l",
      "u", "d", "e", " ", "a", "t", " ", "l", "e", "a", "s", "t", " ", "o",
      "n", "e", " ", "o", "f", " ", "t", "h", "e", " ", "f", "o", "l", "l",
      "o", "w", "i", "n", "g", " ", "p", "a", "r", "a", "m", "e", "t", "e",
      "r", "s", ":", " ">>
T_CouldNotSetup ==
    <<"C", "o", "u", "l", "d", " ", "n", "o", "t", " ", "s", "e", "t", "u",
      "p", " ", "d", "e", "p", "e", "n", "d", "e", "n", "c", "i", "e", "s",
      ":", " ">>
T_None ==
    <<"N", "o", "n", "e">>

\* cls.__name__
ClassName(cls) ==
    CASE cls = "HomeAssistantError" ->
            <<"H", "o", "m", "e", "A", "s", "s", "i", "s", "t", "a", "n",
              "t", "E", "r", "r", "o", "r">>
      [] cls = "InvalidEntityFormatError" ->
            <<"I", "n", "v", "a", "l", "i", "d", "E", "n", "t", "i", "t",
              "y", "F", "o", "r", "m", "a", "t", "E", "r", "r", "o", "r">>
      [] cls = "NoEntitySpecifiedError" ->
            <<"N", "o", "E", "n", "t", "i", "t", "y", "S", "p", "e", "c",
              "i", "f", "i", "e", "d", "E", "r", "r", "o", "r">>
      [] cls = "InvalidStateError" ->
            <<"I", "n", "v", "a", "l", "i", "d", "S", "t", "a", "t", "e",
              "E", "r", "r", "o", "r">>
      [] cls = "TemplateError" ->
            <<"T", "e", "m", "p", "l", "a", "t", "e", "E", "r", "r", "o",
              "r">>
      [] cls = "ConditionError" ->
            <<"C", "o", "n", "d", "i", "t", "i", "o", "n", "E", "r", "r",
              "o", "r">>
      [] cls = "ConditionErrorMessage" ->
            <<"C", "o", "n", "d", "i", "t", "i", "o", "n", "E", "r", "r",
              "o", "r", "M", "e", "s", "s", "a", "g", "e">>
      [] cls = "ConditionErrorIndex" ->
            <<"C", "o", "n", "d", "i", "t", "i", "o", "n", "E", "r", "r",
              "o", "r", "I", "n", "d", "e", "x">>
      [] cls = "ConditionErrorContainer" ->
            <<"C", "o", "n", "d", "i", "t", "i", "o", "n", "E", "r", "r",
              "o", "r", "C", "o", "n", "t", "a", "i", "n", "e", "r">>
      [] cls = "IntegrationError" ->
            <<"I", "n", "t", "e", "g", "r", "a", "t", "i", "o", "n", "E",
              "r", "r", "o", "r">>
      [] cls = "PlatformNotReady" ->
            <<"P", "l", "a", "t", "f", "o", "r", "m", "N", "o", "t", "R",
              "e", "a", "d", "y">>
      [] cls = "ConfigEntryNotReady" ->
            <<"C", "o", "n", "f", "i", "g", "E", "n", "t", "r", "y", "N",
              "o", "t", "R", "e", "a", "d", "y">>
      [] cls = "ConfigEntryAuthFailed" ->
            <<"C", "o", "n", "f", "i", "g", "E", "n", "t", "r", "y", "A",
              "u", "t", "h", "F", "a", "i", "l", "e", "d">>
      [] cls = "Unauthorized" ->
            <<"U", "n", "a", "u", "t", "h", "o", "r", "i", "z", "e", "d">>
      [] cls = "UnknownUser" ->
            <<"U", "n", "k", "n", "o", "w", "n", "U", "s", "e", "r">>
      [] cls = "ServiceNotFound" ->
            <<"S", "e", "r", "v", "i", "c", "e", "N", "o", "t", "F", "o",
              "u", "n", "d">>
      [] cls = "MaxLengthExceeded" ->
            <<"M", "a", "x", "L", "e", "n", "g", "t", "h", "E", "x", "c",
              "e", "e", "d", "e", "d">>
      [] cls = "RequiredParameterMissing" ->
            <<"R", "e", "q", "u", "i", "r", "e", "d", "P", "a", "r", "a",
              "m", "e", "t", "e", "r", "M", "i", "s", "s", "i", "n", "g">>
      [] cls = "DependencyError" ->
            <<"D", "e", "p", "e", "n", "d", "e", "n", "c", "y", "E", "r",
              "r", "o", "r">>

MessageTypes == {S_state}         \* types of leaf conditions
GroupTypes == {S_and}            \* types of conditions with indexed parts
ContainerTypes == {S_or}         \* types of conditions that collect errors
Messages == {S_off, <<>>}
Indexes == {0, 9}
Totals == {1, 10}
Indents == {0, 2}                \* the indents output() is called with

----------------------------------------------------------------------------
(* The ConditionError classes (attrs classes: the generated __init__       *)
(* stores each argument in its field and validates nothing).               *)

ConditionError(type) == [cls |-> "ConditionError", type |-> type]

ConditionErrorMessage(type, message) ==
    [cls |-> "ConditionErrorMessage", type |-> type, message |-> message]

ConditionErrorIndex(type, index, total, error) ==
    [cls |-> "ConditionErrorIndex", type |-> type, index |-> index,
     total |-> total, error |-> error]

ConditionErrorContainer(type, errs) ==
    [cls |-> "ConditionErrorContainer", type |-> type, errors |-> errs]

ConditionClasses ==
    {"ConditionError", "ConditionErrorMessage", "ConditionErrorIndex",
     "ConditionErrorContainer"}

IsConditionError(e) == e.cls \in ConditionClasses

\* a slip: one space per level
Indent_OneSpace(indent, message) == Repeat(<<" ">>, indent) \o message

\* ConditionError._indent
Indent(indent, message) == Repeat(<<" ", " ">>, indent) \o message

----------------------------------------------------------------------------
(* Generators.  A generator frame is [self, indent, pc]; pc is the         *)
(* position in the body of output().  Each output body is given as the     *)
(* step it takes from a frame: yield a line, call a child's output and     *)
(* delegate to it (yield from), or return.                                 *)

Frame(self, indent) == [self |-> self, indent |-> indent, pc |-> 0]

Yield(line, pc) == [op |-> "yield", line |-> line, target |-> None, indent |-> 0, pc |-> pc]
YieldFrom(target, indent, pc) ==
    [op |-> "call", line |-> <<>>, target |-> target, indent |-> indent, pc |-> pc]
Return == [op |-> "return", line |-> <<>>, target |-> None, indent |-> 0, pc |-> 0]

\* f"In '{self.type}' condition: {self.message}"
MessageText(self) ==
    <<"I", "n", " ", "'">> \o self.type
    \o <<"'", " ", "c", "o", "n", "d", "i", "t", "i", "o", "n", ":", " ">>
    \o self.message

ConditionErrorMessage_output(f) ==
    IF f.pc = 0
    THEN Yield(Indent(f.indent, MessageText(f.self)), 1)
    ELSE Return

\* a slip: total >= 1 in place of total > 1
IndexText_AtLeastOne(self) ==
    IF self.total >= 1
    THEN <<"I", "n", " ", "'">> \o self.type
         \o <<"'", " ", "(", "i", "t", "e", "m", " ">> \o IntStr(self.index + 1)
         \o <<" ", "o", "f", " ">> \o IntStr(self.total) \o <<")", ":">>
    ELSE <<"I", "n", " ", "'">> \o self.type \o <<"'", ":">>

\* the header of ConditionErrorIndex.output, before indentation
IndexText(self) ==
    IF self.total > 1
    THEN <<"I", "n", " ", "'">> \o self.type
         \o <<"'", " ", "(", "i", "t", "e", "m", " ">> \o IntStr(self.index + 1)
         \o <<" ", "o", "f", " ">> \o IntStr(self.total) \o <<")", ":">>
    ELSE <<"I", "n", " ", "'">> \o self.type \o <<"'", ":">>

\* a slip: the wrapped error is never rendered
ConditionErrorIndex_output_NoDelegate(f) ==
    IF f.pc = 0 THEN Yield(Indent(f.indent, IndexText(f.self)), 1)
    ELSE Return

ConditionErrorIndex_output(f) ==
    IF f.pc = 0 THEN Yield(Indent(f.indent, IndexText(f.self)), 1)
    ELSE IF f.pc = 1 THEN YieldFrom(f.self.error, f.indent + 1, 2)
    ELSE Return

\* a slip: the items are rendered last to first
ConditionErrorContainer_output_Reversed(f) ==
    IF f.pc < Len(f.self.errors)
    THEN YieldFrom(f.self.errors[Len(f.self.errors) - f.pc], f.indent, f.pc + 1)
    ELSE Return

\* a slip: the items are rendered one level deeper
ConditionErrorContainer_output_Nested(f) ==
    IF f.pc < Len(f.self.errors)
    THEN YieldFrom(f.self.errors[f.pc + 1], f.indent + 1, f.pc + 1)
    ELSE Return

\* pc counts the items of self.errors already iterated
ConditionErrorContainer_output(f) ==
    IF f.pc < Len(f.self.errors)
    THEN YieldFrom(f.self.errors[f.pc + 1], f.indent, f.pc + 1)
    ELSE Return

\* dynamic dispatch of a frame to its class' output body
OutputStep(f) ==
    CASE f.self.cls = "ConditionErrorMessage" -> ConditionErrorMessage_output(f)
      [] f.self.cls = "ConditionErrorIndex" -> ConditionErrorIndex_output(f)
      [] f.self.cls = "ConditionErrorContainer" -> ConditionErrorContainer_output(f)

\* ConditionError.output is no generator function: the call itself raises
OutputRaises(self) == self.cls = "ConditionError"

\* next() on a generator whose frames are stack (innermost last): run to the
\* next yield, to exhaustion, or to the exception that unwinds every frame.
RECURSIVE Resume(_)
Resume(stack) ==
    IF stack = <<>>
    THEN [stack |-> <<>>, event |-> "StopIteration", line |-> <<>>]
    ELSE LET f == stack[Len(stack)]
             rest == SubSeq(stack, 1, Len(stack) - 1)
             r == OutputStep(f)
         IN CASE r.op = "yield" ->
                    [stack |-> Append(rest, [f EXCEPT !.pc = r.pc]),
                     event |-> "yield", line |-> r.line]
              [] r.op = "call" ->
                    IF OutputRaises(r.target)
                    THEN [stack |-> <<>>, event |-> "NotImplementedError",
                          line |-> <<>>]
                    ELSE Resume(Append(Append(rest, [f EXCEPT !.pc = r.pc]),
                                       Frame(r.target, r.indent)))
              [] r.op = "return" -> Resume(rest)

\* list(generator): pull until the generator is exhausted or raises
RECURSIVE ListOf(_, _)
ListOf(stack, acc) ==
    LET r == Resume(stack)
    IN CASE r.event = "yield" -> ListOf(r.stack, Append(acc, r.line))
         [] r.event = "StopIteration" -> [raised |-> "", lines |-> acc]
         [] r.event = "NotImplementedError" ->
                [raised |-> "NotImplementedError", lines |-> acc]

\* list(self.output(indent))
OutputList(self, indent) ==
    IF OutputRaises(self)
    THEN [raised |-> "NotImplementedError", lines |-> <<>>]
    ELSE ListOf(<<Frame(self, indent)>>, <<>>)

\* the outcome of str(): a string, or the exception it raised
Returned(s) == [raised |-> "", value |-> s]
Raised(exc) == [raised |-> exc, value |-> <<>>]
NotCalled == [raised |-> "not called", value |-> <<>>]

\* ConditionError.__str__
ConditionError_str(self) ==
    LET l == OutputList(self, 0)
    IN IF l.raised # "" THEN Raised(l.raised) ELSE Returned(Join(<<"\n">>, l.lines))

----------------------------------------------------------------------------
(* The error taxonomy.  An exception object is [cls, args, cause] plus the *)
(* fields its __init__ sets; args is what reached BaseException.__init__,  *)
(* each element a str or SelfRef, the object itself.                       *)

SelfRef == [cls |-> "self"]

PlainClasses ==
    {"HomeAssistantError", "InvalidEntityFormatError", "NoEntitySpecifiedError",
     "InvalidStateError"}

IntegrationClasses ==
    {"IntegrationError", "PlatformNotReady", "ConfigEntryNotReady",
     "ConfigEntryAuthFailed"}

UnauthorizedClasses == {"Unauthorized", "UnknownUser"}

\* cls(*args) for a class that defines no __init__
HomeAssistantError(cls, args) == [cls |-> cls, args |-> args, cause |-> None]

\* repr(a) of an element of self.args while repr(self.args) is running: the
\* object itself is cut short by the interpreter's recursion guard.  (A str
\* without quotes or escapes, as all sample strings are, is put in quotes.)
ArgRepr(self, a) ==
    IF a = SelfRef
    THEN ClassName(self.cls) \o <<"(", ".", ".", ".", ")">>
    ELSE <<"'">> \o a.v \o <<"'">>

\* BaseException.__str__: "" without args, str(args[0]) with one, else
\* str(self.args), the repr of the tuple
BaseException_str(self) ==
    IF Len(self.args) = 0 THEN <<>>
    ELSE IF Len(self.args) = 1 THEN self.args[1].v
    ELSE <<"(">>
         \o Join(<<",", " ">>,
                 [i \in 1..Len(self.args) |-> ArgRepr(self, self.args[i])])
         \o <<")">>

\* ServiceNotFound.__str__
ServiceNotFound_str(self) ==
    T_UnableToFind \o self.domain \o <<".">> \o self.service

RECURSIVE IntegrationError_str(_)
RECURSIVE Str(_)

\* str(e), by the __str__ of e's class
Str(e) ==
    CASE e = None -> Returned(T_None)
      [] e.cls \in ConditionClasses -> ConditionError_str(e)
      [] e.cls \in IntegrationClasses -> IntegrationError_str(e)
      [] e.cls = "ServiceNotFound" -> Returned(ServiceNotFound_str(e))
      [] OTHER -> Returned(BaseException_str(e))

\* IntegrationError.__str__: super().__str__() or str(self.__cause__)
IntegrationError_str(self) ==
    IF BaseException_str(self) # <<>>
    THEN Returned(BaseException_str(self))
    ELSE Str(self.cause)

\* TemplateError.__init__
TemplateError(exception) ==
    IF exception.cls = "str"
    THEN HomeAssistantError("TemplateError", <<exception>>)
    ELSE HomeAssistantError("TemplateError",
            <<PyStr(ClassName(exception.cls) \o <<":", " ">> \o Str(exception).value)>>)

\* homeassistant.core.Context, as far as this module reads it
Context(user_id) ==
    [cls |-> "Context", user_id |-> user_id, parent_id |-> None, id |-> PyStr(S_c1)]

\* a slip: the context's user wins over the explicit user_id
Unauthorized_ContextFirst(cls, context, user_id, entity_id, config_entry_id, perm_category, permission) ==
    [cls |-> cls, args |-> <<PyStr(ClassName(cls))>>, cause |-> None,
     context |-> context,
     user_id |-> IF context # None THEN context.user_id ELSE user_id,
     entity_id |-> entity_id,
     config_entry_id |-> config_entry_id,
     perm_category |-> perm_category,
     permission |-> permission]

\* Unauthorized.__init__ (UnknownUser inherits it)
Unauthorized(cls, context, user_id, entity_id, config_entry_id, perm_category, permission) ==
    [cls |-> cls, args |-> <<PyStr(ClassName(cls))>>, cause |-> None,
     context |-> context,
     user_id |-> IF user_id = None /\ context # None THEN context.user_id
                 ELSE user_id,
     entity_id |-> entity_id,
     config_entry_id |-> config_entry_id,
     perm_category |-> perm_category,
     permission |-> permission]

\* ServiceNotFound.__init__
ServiceNotFound(domain, service) ==
    [cls |-> "ServiceNotFound",
     args |-> <<SelfRef, PyStr(T_Service \o domain \o <<".">> \o service \o T_NotFound)>>,
     cause |-> None, domain |-> domain, service |-> service]

\* MaxLengthExceeded.__init__
MaxLengthExceeded(value, property_name, max_length) ==
    [cls |-> "MaxLengthExceeded",
     args |-> <<SelfRef,
                PyStr(T_Value \o value \o T_ForProperty \o property_name
                      \o T_MaxLength \o IntStr(max_length) \o T_Characters)>>,
     cause |-> None, value |-> value, property_name |-> property_name,
     max_length |-> max_length]

\* RequiredParameterMissing.__init__
RequiredParameterMissing(parameter_names) ==
    [cls |-> "RequiredParameterMissing",
     args |-> <<SelfRef,
                PyStr(T_CallMustInclude \o Join(<<",", " ">>, parameter_names))>>,
     cause |-> None, parameter_names |-> parameter_names]

\* DependencyError.__init__
DependencyError(failed_dependencies) ==
    [cls |-> "DependencyError",
     args |-> <<SelfRef,
                PyStr(T_CouldNotSetup \o Join(<<",", " ">>, failed_dependencies))>>,
     cause |-> None, failed_dependencies |-> failed_dependencies]

\* Sample arguments.
ArgLists == {<<>>, <<PyStr(<<>>)>>, <<PyStr(S_off)>>, <<PyStr(S_off), PyStr(S_abc)>>}
Causes ==
    {HomeAssistantError("HomeAssistantError", <<PyStr(S_abc)>>),
     HomeAssistantError("HomeAssistantError", <<>>),
     ConditionErrorMessage(S_state, S_off),
     ConditionError(S_and)}
Underlying == {PyStr(S_off), PyStr(<<>>)} \cup Causes
Contexts == {None, Context(None), Context(PyStr(S_u1))}
NameLists == {<<>>, <<S_abc>>, <<S_abc, S_name>>}
Lengths == {3, 10}

----------------------------------------------------------------------------
(* The state of a consumer's generator.                                    *)

Idle == [state |-> "idle", self |-> None, indent |-> 0, stack |-> <<>>, out |-> <<>>]

RECURSIVE Size(_)
RECURSIVE SizeAll(_)
Size(e) ==
    CASE e.cls = "ConditionErrorIndex" -> 1 + Size(e.error)
      [] e.cls = "ConditionErrorContainer" -> 1 + SizeAll(e.errors)
      [] OTHER -> 1
SizeAll(es) == IF es = <<>> THEN 0 ELSE Size(es[1]) + SizeAll(Tail(es))

Built == (IF err = None THEN 0 ELSE Size(err)) + SizeAll(errors)

AllIdle == \A g \in Gens : gen[g].state = "idle"

Init ==
    /\ err = None
    /\ supplied = None
    /\ errors = <<>>
    /\ gen = [g \in Gens |-> Idle]
    /\ strResult = NotCalled

Construct(e, args) ==
    /\ AllIdle
    /\ err' = e
    /\ supplied' = args
    /\ strResult' = NotCalled
    /\ UNCHANGED gen

\* ConditionError(type): the base class is instantiable
NewConditionError ==
    /\ err = None /\ Built < MaxNodes
    /\ \E t \in GroupTypes :
          Construct(ConditionError(t), [type |-> t])
    /\ UNCHANGED errors

NewConditionErrorMessage ==
    /\ err = None /\ Built < MaxNodes
    /\ \E t \in MessageTypes, m \in Messages :
          Construct(ConditionErrorMessage(t, m), [type |-> t, message |-> m])
    /\ UNCHANGED errors

\* the engine wraps the error it caught with its position
NewConditionErrorIndex ==
    /\ err # None /\ IsConditionError(err) /\ Built < MaxNodes
    /\ \E t \in GroupTypes, i \in Indexes, n \in Totals :
          Construct(ConditionErrorIndex(t, i, n, err),
                    [type |-> t, index |-> i, total |-> n, error |-> err])
    /\ UNCHANGED errors

\* errors.append(err)
AppendError ==
    /\ err # None /\ IsConditionError(err) /\ AllIdle
    /\ Len(errors) < MaxErrors
    /\ errors' = Append(errors, err)
    /\ err' = None
    /\ supplied' = None
    /\ strResult' = NotCalled
    /\ UNCHANGED gen

\* ConditionErrorContainer(type, errors=errors)
NewConditionErrorContainer ==
    /\ err = None /\ Built < MaxNodes
    /\ \E t \in ContainerTypes :
          Construct(ConditionErrorContainer(t, errors), [type |-> t, errors |-> errors])
    /\ errors' = <<>>

\* an error of a class without __init__ is constructed from its message(s)
NewHomeAssistantError ==
    /\ err = None /\ errors = <<>>
    /\ \E cls \in PlainClasses \cup IntegrationClasses, args \in ArgLists :
          Construct(HomeAssistantError(cls, args), [args |-> args])
    /\ UNCHANGED errors

\* TemplateError(exception); when str(exception) raises, so does the constructor
NewTemplateError ==
    /\ err = None /\ errors = <<>>
    /\ \E x \in Underlying :
          /\ x.cls # "str" => Str(x).raised = ""
          /\ Construct(TemplateError(x), [exception |-> x])
    /\ UNCHANGED errors

\* raise err from c: sets err.__cause__
RaiseFrom ==
    /\ err # None /\ ~IsConditionError(err) /\ AllIdle
    /\ err.cause = None
    /\ \E c \in Causes : err' = [err EXCEPT !.cause = c]
    /\ strResult' = NotCalled
    /\ UNCHANGED <<supplied, errors, gen>>

NewUnauthorized ==
    /\ err = None /\ errors = <<>>
    /\ \E cls \in UnauthorizedClasses, context \in Contexts,
          user_id \in {None, PyStr(S_u2)}, entity_id \in {None, PyStr(S_e1)},
          config_entry_id \in {None, PyStr(S_ce)},
          perm_category \in {None, PyStr(S_p1)}, permission \in {None, PyStr(S_x1)} :
          Construct(Unauthorized(cls, context, user_id, entity_id, config_entry_id,
                                 perm_category, permission),
                    [context |-> context, user_id |-> user_id,
                     entity_id |-> entity_id, config_entry_id |-> config_entry_id,
                     perm_category |-> perm_category, permission |-> permission])
    /\ UNCHANGED errors

NewServiceNotFound ==
    /\ err = None /\ errors = <<>>
    /\ \E domain \in {S_light, <<>>}, service \in {S_on, S_off} :
          Construct(ServiceNotFound(domain, service),
                    [domain |-> domain, service |-> service])
    /\ UNCHANGED errors

NewMaxLengthExceeded ==
    /\ err = None /\ errors = <<>>
    /\ \E value \in {S_abc, <<>>}, property_name \in {S_name}, max_length \in Lengths :
          Construct(MaxLengthExceeded(value, property_name, max_length),
                    [value |-> value, property_name |-> property_name,
                     max_length |-> max_length])
    /\ UNCHANGED errors

NewRequiredParameterMissing ==
    /\ err = None /\ errors = <<>>
    /\ \E parameter_names \in NameLists :
          Construct(RequiredParameterMissing(parameter_names),
                    [parameter_names |-> parameter_names])
    /\ UNCHANGED errors

NewDependencyError ==
    /\ err = None /\ errors = <<>>
    /\ \E failed_dependencies \in NameLists :
          Construct(DependencyError(failed_dependencies),
                    [failed_dependencies |-> failed_dependencies])
    /\ UNCHANGED errors

\* g = err.output(k): creates the generator, runs none of its body.  Consumer 2
\* is the one that invokes output again: it does so while consumer 1 holds an
\* enumeration, and with the same indent.  Errors are rendered once the engine
\* has raised them, when its errors list is empty again.
Output(g, k) ==
    /\ gen[g].state = "idle"
    /\ errors = <<>>
    /\ g = 2 => (gen[1].state # "idle" /\ gen[1].indent = k)
    /\ err # None /\ IsConditionError(err)
    /\ gen' = [gen EXCEPT ![g] =
                 IF OutputRaises(err)
                 THEN [state |-> "raised", self |-> err, indent |-> k,
                       stack |-> <<>>, out |-> <<>>]
                 ELSE [state |-> "suspended", self |-> err, indent |-> k,
                       stack |-> <<Frame(err, k)>>, out |-> <<>>]]
    /\ UNCHANGED <<err, supplied, errors, strResult>>

\* a slip: output() hands every caller the same generator object, so a pull by
\* one consumer advances the enumeration of the other
Pull_SharedIterator(g) ==
    /\ gen[g].state = "suspended"
    /\ LET r == Resume(gen[g].stack)
           st == CASE r.event = "yield" -> "suspended"
                   [] r.event = "StopIteration" -> "exhausted"
                   [] OTHER -> "raised"
       IN gen' = [h \in Gens |->
                    IF h = g
                    THEN [gen[h] EXCEPT !.stack = r.stack, !.state = st,
                              !.out = IF r.event = "yield" THEN Append(@, r.line) ELSE @]
                    ELSE IF gen[h].state = "suspended"
                    THEN [gen[h] EXCEPT !.stack = r.stack, !.state = st]
                    ELSE gen[h]]
    /\ UNCHANGED <<err, supplied, errors, strResult>>

\* next(g): the consumer pulls one line
Pull(g) ==
    /\ gen[g].state = "suspended"
    /\ LET r == Resume(gen[g].stack)
       IN gen' = [gen EXCEPT ![g] =
                    [@ EXCEPT !.stack = r.stack,
                              !.out = IF r.event = "yield" THEN Append(@, r.line) ELSE @,
                              !.state = CASE r.event = "yield" -> "suspended"
                                          [] r.event = "StopIteration" -> "exhausted"
                                          [] OTHER -> "raised"]]
    /\ UNCHANGED <<err, supplied, errors, strResult>>

\* the consumer drops its generator, finished or not
Abandon(g) ==
    /\ gen[g].state # "idle"
    /\ gen' = [gen EXCEPT ![g] = Idle]
    /\ UNCHANGED <<err, supplied, errors, strResult>>

\* str(err)
CallStr ==
    /\ err # None /\ AllIdle /\ errors = <<>>
    /\ strResult = NotCalled
    /\ strResult' = Str(err)
    /\ UNCHANGED <<err, supplied, errors, gen>>

\* the error value is dropped
Discard ==
    /\ err # None /\ AllIdle
    /\ err' = None /\ supplied' = None /\ strResult' = NotCalled
    /\ UNCHANGED <<errors, gen>>

Next ==
    \/ NewConditionError
    \/ NewConditionErrorMessage
    \/ NewConditionErrorIndex
    \/ AppendError
    \/ NewConditionErrorContainer
    \/ \E g \in Gens, k \in Indents : Output(g, k)
    \/ \E g \in Gens : Pull(g)
    \/ \E g \in Gens : Abandon(g)
    \/ CallStr
    \/ NewHomeAssistantError
    \/ NewTemplateError
    \/ RaiseFrom
    \/ NewUnauthorized
    \/ NewServiceNotFound
    \/ NewMaxLengthExceeded
    \/ NewRequiredParameterMissing
    \/ NewDependencyError
    \/ Discard

Spec == Init /\ [][Next]_vars

----------------------------------------------------------------------------
(* The rendering contract, stated on its own: what each line must be.      *)

Spaces(n) == [i \in 1..n |-> " "]

IsPrefix(a, b) == Len(a) <= Len(b) /\ SubSeq(b, 1, Len(a)) = a

RECURSIVE Concat(_)
Concat(seqs) == IF seqs = <<>> THEN <<>> ELSE seqs[1] \o Concat(Tail(seqs))

Q_In == <<"I", "n", " ", "'">>
Q_Condition == <<"'", " ", "c", "o", "n", "d", "i", "t", "i", "o", "n", ":", " ">>
Q_Item == <<"'", " ", "(", "i", "t", "e", "m", " ">>
Q_Of == <<" ", "o", "f", " ">>

\* "In 't' condition: m"
MessageLine(t, m) == Q_In \o t \o Q_Condition \o m

\* "In 't':" for one part, "In 't' (item i+1 of n):" for several
IndexLine(t, i, n) ==
    IF n = 1 THEN Q_In \o t \o <<"'", ":">>
    ELSE Q_In \o t \o Q_Item \o IntStr(i + 1) \o Q_Of \o IntStr(n) \o <<")", ":">>

Active(g) == gen[g].state # "idle"

\* C1: for a ConditionErrorIndex with type t, index i, total n >= 1 and wrapped
\* error inner, the first line output(k) yields is 2k spaces and then "In 't':"
\* when n = 1 and "In 't' (item i+1 of n):" when n > 1; the lines after it are
\* exactly those of inner.output(k+1), in order, and nothing follows them.
C1_IndexOutput ==
    \A g \in Gens :
        (Active(g) /\ gen[g].self.cls = "ConditionErrorIndex") =>
            LET e == gen[g].self
                k == gen[g].indent
                out == gen[g].out
                inner == OutputList(e.error, k + 1)
            IN /\ (out # <<>> /\ e.total >= 1) =>
                      out[1] = Spaces(2 * k) \o IndexLine(e.type, e.index, e.total)
               /\ out # <<>> => IsPrefix(Tail(out), inner.lines)
               /\ gen[g].state = "exhausted" =>
                      (inner.raised = "" /\ out # <<>> /\ Tail(out) = inner.lines)
               /\ gen[g].state = "raised" =>
                      (inner.raised # "" /\ out # <<>> /\ Tail(out) = inner.lines)

\* an enumeration of an Index node of several parts, at a positive indent, has
\* run to its end and yielded the header and the wrapped error's lines
C1_Witness ==
    \E g \in Gens :
        /\ gen[g].state = "exhausted"
        /\ gen[g].self.cls = "ConditionErrorIndex"
        /\ gen[g].self.total > 1
        /\ gen[g].self.index > 0
        /\ gen[g].indent > 0
        /\ Len(gen[g].out) >= 3

\* C2: for a ConditionErrorContainer with errors [e1, ..., em], output(k) is the
\* concatenation of e1.output(k), ..., em.output(k) in list order, with no
\* header and no added indentation; with no errors it yields no lines.
C2_ContainerOutput ==
    \A g \in Gens :
        (Active(g) /\ gen[g].self.cls = "ConditionErrorContainer") =>
            LET e == gen[g].self
                k == gen[g].indent
                parts == [i \in 1..Len(e.errors) |-> OutputList(e.errors[i], k)]
                whole == Concat([i \in 1..Len(e.errors) |-> parts[i].lines])
            IN /\ IsPrefix(gen[g].out, whole)
               /\ gen[g].state = "exhausted" =>
                      (gen[g].out = whole /\ \A i \in 1..Len(e.errors) : parts[i].raised = "")
               /\ gen[g].state = "raised" =>
                      \E i \in 1..Len(e.errors) : parts[i].raised # ""
               /\ e.errors = <<>> => gen[g].out = <<>>

\* an enumeration of a Container of two errors that render differently has run
\* to its end
C2_Witness ==
    \E g \in Gens :
        /\ gen[g].state = "exhausted"
        /\ gen[g].self.cls = "ConditionErrorContainer"
        /\ Len(gen[g].self.errors) = 2
        /\ gen[g].self.errors[1] # gen[g].self.errors[2]
        /\ Len(gen[g].out) >= 2

\* C3: for a ConditionErrorMessage with type t and message m, output(n) yields
\* exactly one line, 2n spaces followed by "In 't' condition: m", and then ends.
C3_MessageOutput ==
    \A g \in Gens :
        (Active(g) /\ gen[g].self.cls = "ConditionErrorMessage") =>
            LET e == gen[g].self
                line == Spaces(2 * gen[g].indent) \o MessageLine(e.type, e.message)
            IN /\ gen[g].out \in {<<>>, <<line>>}
               /\ gen[g].state \in {"suspended", "exhausted"}
               /\ gen[g].state = "exhausted" => gen[g].out = <<line>>
               /\ (gen[g].state = "suspended" /\ gen[g].out # <<>>) =>
                      Resume(gen[g].stack).event = "StopIteration"

\* an enumeration of a Message at a positive indent has yielded its line and ended
C3_Witness ==
    \E g \in Gens :
        /\ gen[g].state = "exhausted"
        /\ gen[g].self.cls = "ConditionErrorMessage"
        /\ gen[g].indent > 0
        /\ gen[g].self.message # <<>>
        /\ Len(gen[g].out) = 1

NoResult(r) == r.raised = "not called"

\* C4: rendering is restartable and free of side effects: two invocations of
\* output(k) on the same tree yield the same lines, whether the consumers pull
\* line by line, abandon an enumeration part-way or interleave their pulls; each
\* enumeration yields the lines of a fresh, uninterrupted output(k); and the
\* tree an enumeration runs over has the fields it had when it started.
C4_Restartable ==
    /\ \A g \in Gens :
          Active(g) =>
              LET fresh == OutputList(err, gen[g].indent)
              IN /\ gen[g].self = err
                 /\ IsPrefix(gen[g].out, fresh.lines)
                 /\ gen[g].state = "exhausted" =>
                        (gen[g].out = fresh.lines /\ fresh.raised = "")
                 /\ gen[g].state = "raised" =>
                        (gen[g].out = fresh.lines /\ fresh.raised # "")
    /\ \A g, h \in Gens :
          (Active(g) /\ Active(h) /\ gen[g].indent = gen[h].indent) =>
              /\ IsPrefix(gen[g].out, gen[h].out) \/ IsPrefix(gen[h].out, gen[g].out)
              /\ (gen[g].state = gen[h].state /\ gen[g].state # "suspended") =>
                     gen[g].out = gen[h].out

\* the second enumeration has run to its end over several lines while the first,
\* started before it, is still part-way through
C4_Witness ==
    /\ gen[1].state = "suspended"
    /\ Len(gen[1].out) = 1
    /\ gen[2].state = "exhausted"
    /\ Len(gen[2].out) >= 3

\* The nodes that yield a line, in depth-first left-to-right pre-order, each with
\* the number of its Index ancestors.
RECURSIVE PreOrder(_, _)
PreOrder(e, d) ==
    CASE e.cls = "ConditionErrorMessage" -> <<[node |-> e, depth |-> d]>>
      [] e.cls = "ConditionErrorIndex" ->
             <<[node |-> e, depth |-> d]>> \o PreOrder(e.error, d + 1)
      [] e.cls = "ConditionErrorContainer" ->
             Concat([i \in 1..Len(e.errors) |-> PreOrder(e.errors[i], d)])
      [] OTHER -> <<>>

NodeLine(e) ==
    IF e.cls = "ConditionErrorMessage" THEN MessageLine(e.type, e.message)
    ELSE IndexLine(e.type, e.index, e.total)

\* the tree holds Message, Index and Container nodes only
RECURSIVE Concrete(_)
Concrete(e) ==
    CASE e.cls = "ConditionErrorMessage" -> TRUE
      [] e.cls = "ConditionErrorIndex" -> Concrete(e.error)
      [] e.cls = "ConditionErrorContainer" ->
             \A i \in 1..Len(e.errors) : Concrete(e.errors[i])
      [] OTHER -> FALSE

\* a Container's items with the items of its Container children put in their place
RECURSIVE Flattened(_)
Flattened(es) ==
    IF es = <<>> THEN <<>>
    ELSE (IF es[1].cls = "ConditionErrorContainer"
          THEN Flattened(es[1].errors) ELSE <<es[1]>>) \o Flattened(Tail(es))

\* the number of leading spaces of a line
RECURSIVE LeadingSpaces(_)
LeadingSpaces(line) ==
    IF line # <<>> /\ line[1] = " " THEN 1 + LeadingSpaces(Tail(line)) ELSE 0

\* C10: for a tree of Message, Index and Container nodes, output(k) yields one
\* line per Message node and one per Index node, none for a Container, in
\* depth-first left-to-right pre-order; each line is indented by 2*(k + d)
\* spaces, d the number of Index ancestors of its node; a Container of
\* Containers renders as the flattened list of their children.
C10_PreOrderLines ==
    /\ \A g \in Gens :
          (Active(g) /\ Concrete(gen[g].self)) =>
              LET k == gen[g].indent
                  nodes == PreOrder(gen[g].self, 0)
                  out == gen[g].out
              IN /\ Len(out) <= Len(nodes)
                 /\ gen[g].state # "raised"
                 /\ gen[g].state = "exhausted" => Len(out) = Len(nodes)
                 /\ \A i \in 1..Len(out) :
                       /\ LeadingSpaces(out[i]) = 2 * (k + nodes[i].depth)
                       /\ out[i] = Spaces(2 * (k + nodes[i].depth))
                                     \o NodeLine(nodes[i].node)
    /\ \A g \in Gens :
          (gen[g].state = "exhausted" /\ gen[g].self.cls = "ConditionErrorContainer"
             /\ Concrete(gen[g].self)) =>
              gen[g].out
                = OutputList(ConditionErrorContainer(gen[g].self.type,
                                                     Flattened(gen[g].self.errors)),
                             gen[g].indent).lines

\* an enumeration at a positive indent has run to its end over an Index node
\* that wraps a Container: the Message below is one Index ancestor deep
C10_Witness ==
    \E g \in Gens :
        /\ gen[g].state = "exhausted"
        /\ gen[g].indent > 0
        /\ gen[g].self.cls = "ConditionErrorIndex"
        /\ gen[g].self.error.cls = "ConditionErrorContainer"
        /\ gen[g].self.error.errors # <<>>
        /\ Len(gen[g].out) = 2

\* C7: the user_id of an Unauthorized (or UnknownUser) is the user id supplied
\* when one was supplied, the context's user_id when none was supplied and a
\* context is present, and absent when neither is given; every other field is
\* exactly what was supplied, never taken from the context.
C7_UnauthorizedFields ==
    err.cls \in UnauthorizedClasses =>
        /\ err.user_id = (IF supplied.user_id # None THEN supplied.user_id
                          ELSE IF supplied.context # None THEN supplied.context.user_id
                          ELSE None)
        /\ err.context = supplied.context
        /\ err.entity_id = supplied.entity_id
        /\ err.config_entry_id = supplied.config_entry_id
        /\ err.perm_category = supplied.perm_category
        /\ err.permission = supplied.permission

\* an Unauthorized built with a user id of its own and a context that names
\* another user, and with no entity id
C7_Witness ==
    /\ err.cls \in UnauthorizedClasses
    /\ supplied.user_id # None
    /\ supplied.context # None
    /\ supplied.context.user_id # None
    /\ supplied.context.user_id # supplied.user_id
    /\ supplied.entity_id = None

\* the message of an error, as BaseException keeps it
OwnMessage(e) == BaseException_str(e)

FormattedMessage(e) ==
    CASE e.cls = "MaxLengthExceeded" ->
             T_Value \o e.value \o T_ForProperty \o e.property_name
             \o T_MaxLength \o IntStr(e.max_length) \o T_Characters
      [] e.cls = "RequiredParameterMissing" ->
             T_CallMustInclude \o Join(<<",", " ">>, e.parameter_names)
      [] e.cls = "DependencyError" ->
             T_CouldNotSetup \o Join(<<",", " ">>, e.failed_dependencies)

FormattedClasses == {"MaxLengthExceeded", "RequiredParameterMissing", "DependencyError"}

\* C6: str(e) of a MaxLengthExceeded, RequiredParameterMissing or
\* DependencyError is exactly the message its constructor formats.
C6_FormattedStr ==
    (err.cls \in FormattedClasses /\ ~NoResult(strResult)) =>
        strResult = Returned(FormattedMessage(err))

\* rendering e reaches a bare ConditionError: e itself, a node of its tree, or
\* the cause an integration error without a message falls back to
RECURSIVE ReachesBase(_)
ReachesBase(e) ==
    CASE e.cls = "ConditionError" -> TRUE
      [] e.cls = "ConditionErrorIndex" -> ReachesBase(e.error)
      [] e.cls = "ConditionErrorContainer" ->
             \E i \in 1..Len(e.errors) : ReachesBase(e.errors[i])
      [] e.cls \in IntegrationClasses ->
             OwnMessage(e) = <<>> /\ ReachesBase(e.cause)
      [] OTHER -> FALSE

\* C8 as stated: str() of every constructed value, the ConditionError base
\* included, returns a string and never raises.
C8_StrTotal == strResult.raised \in {"", "not called"}

\* C8 as amended: str() returns a string for every constructed value whose
\* rendering reaches no bare ConditionError, and raises NotImplementedError for
\* those that do.
C8_StrTotalButBase ==
    ~NoResult(strResult) =>
        IF ReachesBase(err) THEN strResult = Raised("NotImplementedError")
        ELSE strResult.raised = ""

\* str() has returned the rendering of an Index node that wraps an Index or a
\* Container node
C8_Witness ==
    /\ strResult.raised = ""
    /\ err.cls = "ConditionErrorIndex"
    /\ err.error.cls \in {"ConditionErrorIndex", "ConditionErrorContainer"}
    /\ Len(strResult.value) > 0

RECURSIVE IndexesInRange(_)
IndexesInRange(e) ==
    CASE e.cls = "ConditionErrorIndex" ->
             e.index < e.total /\ e.total >= 1 /\ IndexesInRange(e.error)
      [] e.cls = "ConditionErrorContainer" ->
             \A i \in 1..Len(e.errors) : IndexesInRange(e.errors[i])
      [] OTHER -> TRUE

\* C9: every ConditionErrorIndex node that can be constructed, anywhere in a
\* tree, has index < total and total >= 1.
C9_IndexInRange ==
    /\ IndexesInRange(err)
    /\ \A i \in 1..Len(errors) : IndexesInRange(errors[i])

====
